---- MODULE Spec2Model ----
(***************************************************************************)
(* Model of the OAuth2 PKCE token acquisition of esi-client                *)
(* (src/oauth.mjs): the token cache file, the validity check, the local    *)
(* callback listener on port 3001, the code exchange and the refresh       *)
(* grant.  Two calls of requestByNative run concurrently; the browser, the *)
(* token endpoint and whoever connects to the listener are the environment.*)
(* ESIClient.request (src/unnamed/part_000) is modelled as one request to  *)
(* the resource API, from its call to its end.                             *)
(***************************************************************************)
EXTENDS Integers, Sequences, FiniteSets, TLC

(* ------------------------------ bounds --------------------------------- *)

\* Clock readings count half seconds and range over 0..MaxClock.
MaxClock == 2

\* The largest exp claim (Unix seconds) of a token in the model.
MaxExp == 2

(* ------------------------- program constants --------------------------- *)

StatusOK == 200

\* The concurrent calls of requestByNative.
Procs == {1, 2}

(* ------------------------- JavaScript values --------------------------- *)

\* A JavaScript value: t is its type, s its text, n its number.  A string
\* whose text is "jwt" is a well-formed JWT whose exp claim is n when
\* hasExp holds; every other string does not decode as a JWT.
Undefined == [t |-> "undefined", s |-> "", n |-> 0, hasExp |-> FALSE]

Str(s) == [t |-> "string", s |-> s, n |-> 0, hasExp |-> FALSE]

Num(n) == [t |-> "number", s |-> "", n |-> n, hasExp |-> FALSE]

Jwt(exp) == [t |-> "string", s |-> "jwt", n |-> exp, hasExp |-> TRUE]

JwtNoExp == [t |-> "string", s |-> "jwt", n |-> 0, hasExp |-> FALSE]

\* The object an async function returns: settled is "fulfilled" or
\* "rejected", n the fulfilment value (1 true, 0 undefined or false).
PromiseOf(settled, n) == [t |-> "promise", s |-> settled, n |-> n, hasExp |-> FALSE]

\* JavaScript truthiness, as the if statements of the source apply it.
ToBoolean(v) ==
  CASE v.t = "undefined" -> FALSE
    [] v.t = "string" -> v.s # ""
    [] v.t = "number" -> v.n # 0
    [] OTHER -> TRUE

(* ------------------------------- JSON ---------------------------------- *)

\* The keys of the objects the program reads and writes, in the order the
\* token endpoint sends them.
KeyOrder == <<"access_token", "expires_in", "token_type", "refresh_token", "error">>

Keys == {KeyOrder[i] : i \in DOMAIN KeyOrder}

EmptyObj == [k \in Keys |-> Undefined]

\* A JSON value of the program: an object or null.
Obj(obj) == [kind |-> "object", obj |-> obj]

Null == [kind |-> "null", obj |-> EmptyObj]

\* JSON.stringify as it would be if it left out every falsy value (0 and the
\* empty string with undefined).
JSONstringifyTruthy(json) ==
  LET all == [i \in DOMAIN KeyOrder |-> [k |-> KeyOrder[i], v |-> json.obj[KeyOrder[i]]]]
      Truthy(pr) == ToBoolean(pr.v)
  IN IF json.kind = "null" THEN [kind |-> "null", pairs |-> <<>>]
     ELSE [kind |-> "object", pairs |-> SelectSeq(all, Truthy)]

\* JSON.stringify: null, or one key/value pair per key of the object whose
\* value is not undefined, in key order.
JSONstringify(json) ==
  LET all == [i \in DOMAIN KeyOrder |-> [k |-> KeyOrder[i], v |-> json.obj[KeyOrder[i]]]]
      Defined(pr) == pr.v.t # "undefined"
  IN IF json.kind = "null" THEN [kind |-> "null", pairs |-> <<>>]
     ELSE [kind |-> "object", pairs |-> SelectSeq(all, Defined)]

\* JSON.parse of a file text: kind "throw" is the SyntaxError.  In an
\* object a repeated key takes its last value and a key that does not occur
\* reads as undefined.
JSONparse(text) ==
  CASE text.kind = "object" ->
         LET at(k) == {i \in DOMAIN text.pairs : text.pairs[i].k = k}
             last(k) == CHOOSE i \in at(k) : \A j \in at(k) : j <= i
         IN [kind |-> "object",
             obj |-> [k \in Keys |-> IF at(k) = {} THEN Undefined
                                     ELSE text.pairs[last(k)].v]]
    [] text.kind = "null" -> Null
    [] OTHER -> [kind |-> "throw", obj |-> EmptyObj]

\* Contents of .eve_oauth_cache.
NoText == [kind |-> "empty", pairs |-> <<>>]

NoFile == [exists |-> FALSE, text |-> NoText]

FileOf(text) == [exists |-> TRUE, text |-> text]

(* ------------------------- validity and cache -------------------------- *)

\* (new Date().getTime() / 1000).toFixed(0): seconds, rounded to nearest.
NowSeconds(clk) == (clk + 1) \div 2

\* jwtDecode throws on whatever is not a well-formed JWT.
JwtDecodes(access_token) == access_token.t = "string" /\ access_token.s = "jwt"

\* validateJwt is an async function: the caller gets a promise.  It is
\* rejected when jwtDecode throws, fulfilled with false when there is no
\* exp (or exp is 0), with true when now < exp, and with undefined otherwise.
validateJwt(access_token, clk) ==
  IF ~JwtDecodes(access_token) THEN PromiseOf("rejected", 0)
  ELSE IF ~access_token.hasExp \/ access_token.n = 0 THEN PromiseOf("fulfilled", 0)
  ELSE IF NowSeconds(clk) < access_token.n THEN PromiseOf("fulfilled", 1)
  ELSE PromiseOf("fulfilled", 0)

\* getTokenFromCache as it would be if it refreshed whenever the record has
\* a refresh_token, before looking at the access token.
getTokenFromCacheRefreshFirst(f, clk) ==
  LET none == [kind |-> "undefined", obj |-> EmptyObj, check |-> Undefined] IN
  IF ~f.exists THEN none
  ELSE IF f.text.kind = "empty" THEN none
  ELSE LET json == JSONparse(f.text) IN
    IF json.kind = "throw" THEN [none EXCEPT !.kind = "throw"]
    ELSE IF json.kind = "object" /\ ToBoolean(json.obj["refresh_token"])
      THEN [kind |-> "refresh", obj |-> json.obj, check |-> Undefined]
    ELSE IF json.kind = "object" /\ ToBoolean(json.obj["access_token"]) THEN
      LET check == validateJwt(json.obj["access_token"], clk) IN
      IF ToBoolean(check) THEN [kind |-> "json", obj |-> json.obj, check |-> check]
      ELSE [none EXCEPT !.check = check]
    ELSE none

\* getTokenFromCache as it would be without the existsSync test of line 73:
\* readFileSync throws when the file is absent.
getTokenFromCacheNoExistsTest(f, clk) ==
  LET none == [kind |-> "undefined", obj |-> EmptyObj, check |-> Undefined] IN
  IF ~f.exists THEN [none EXCEPT !.kind = "throw"]
  ELSE IF f.text.kind = "empty" THEN none
  ELSE LET json == JSONparse(f.text) IN
    IF json.kind = "throw" THEN [none EXCEPT !.kind = "throw"]
    ELSE IF json.kind = "object" /\ ToBoolean(json.obj["access_token"]) THEN
      LET check == validateJwt(json.obj["access_token"], clk) IN
      IF ToBoolean(check) THEN [kind |-> "json", obj |-> json.obj, check |-> check]
      ELSE IF ToBoolean(json.obj["refresh_token"])
        THEN [kind |-> "refresh", obj |-> json.obj, check |-> check]
      ELSE [none EXCEPT !.check = check]
    ELSE none

\* getTokenFromCache: what requestByNative gets back from it.
\*   "json"      the parsed record itself
\*   "refresh"   the promise of refreshAccessToken(config, json.refresh_token)
\*   "undefined" no cached token
\*   "throw"     the SyntaxError of JSON.parse
\* check is the promise validateJwt returned, when it was called.
getTokenFromCache(f, clk) ==
  LET none == [kind |-> "undefined", obj |-> EmptyObj, check |-> Undefined] IN
  IF ~f.exists THEN none
  ELSE IF f.text.kind = "empty" THEN none
  ELSE LET json == JSONparse(f.text) IN
    IF json.kind = "throw" THEN [none EXCEPT !.kind = "throw"]
    ELSE IF json.kind = "object" /\ ToBoolean(json.obj["access_token"]) THEN
      LET check == validateJwt(json.obj["access_token"], clk) IN
      IF ToBoolean(check) THEN [kind |-> "json", obj |-> json.obj, check |-> check]
      ELSE IF ToBoolean(json.obj["refresh_token"])
        THEN [kind |-> "refresh", obj |-> json.obj, check |-> check]
      ELSE [none EXCEPT !.check = check]
    ELSE none

\* saveTokenToCache: the file after writeFileSync.
saveTokenToCache(token) == FileOf(JSONstringify(token))

(* ------------------------------- inputs -------------------------------- *)

\* Values randomstring.generate(10) can return for the state parameter.
AuthStates == {"sA", "sB"}

\* What the random generators give one authorization attempt: the verifier
\* of generateCodeVerifier and the state.  Two attempts draw the same values or different ones.
AttemptRandoms ==
  {[code_verifier |-> "v1", state |-> "sA"], [code_verifier |-> "v2", state |-> "sB"]}

\* generateCodeChallenge as it would be with the "plain" challenge method:
\* the challenge is the verifier.
generateCodeChallengePlain(code_verifier) == code_verifier

\* generateCodeChallenge: base64url(SHA-256(verifier)), one digest per verifier.
generateCodeChallenge(code_verifier) ==
  CASE code_verifier = "v1" -> "h1"
    [] code_verifier = "v2" -> "h2"
    [] OTHER -> "h0"

\* A token record: the object the token endpoint answers a grant with.
TokenRecord(access_token, refresh_token) ==
  [EmptyObj EXCEPT !["access_token"] = access_token,
                   !["expires_in"] = Num(1199),
                   !["token_type"] = Str("Bearer"),
                   !["refresh_token"] = refresh_token]

\* The error object the token endpoint answers a refused grant with.
ErrorBody == [EmptyObj EXCEPT !["error"] = Str("invalid_grant")]

GarbageText == [kind |-> "garbage", pairs |-> <<>>]

NullText == [kind |-> "null", pairs |-> <<>>]

\* access_token values of a cached record: not a JWT, a JWT without exp,
\* and JWTs with exp 0, 1 and MaxExp.
CachedAccessTokens ==
  {Str("garbage"), JwtNoExp} \cup {Jwt(e) : e \in {0, 1, MaxExp}}

CachedRefreshTokens == {Undefined, Str("r0")}

\* The cache file at the start: absent, empty, not JSON, null, an object
\* without access_token or with an empty one, or a cached record.
InitFiles ==
  {NoFile, FileOf(NoText), FileOf(GarbageText), FileOf(NullText),
   FileOf(JSONstringify(Obj(TokenRecord(Undefined, Str("r0"))))),
   FileOf(JSONstringify(Obj(TokenRecord(Str(""), Undefined))))}
  \cup {FileOf(JSONstringify(Obj(TokenRecord(a, r)))) :
          a \in CachedAccessTokens, r \in CachedRefreshTokens}

\* What the token endpoint can answer.
TokenResponses ==
  {[status |-> StatusOK, statusText |-> "OK",
    body |-> JSONstringify(Obj(TokenRecord(Jwt(MaxExp), Str("r1"))))],
   [status |-> 201, statusText |-> "Created", body |-> JSONstringify(Obj(ErrorBody))],
   [status |-> 400, statusText |-> "Bad Request", body |-> JSONstringify(Obj(ErrorBody))],
   [status |-> 503, statusText |-> "Service Unavailable", body |-> GarbageText],
   [status |-> StatusOK, statusText |-> "OK", body |-> GarbageText]}

\* Requests that can reach the listener: req.url empty, or a query with or
\* without state and code.
CallbackRequests ==
  [url : {TRUE}, state : {Undefined} \cup {Str(s) : s \in AuthStates},
   code : {Undefined, Str(""), Str("c1"), Str("c2")}]
  \cup {[url |-> FALSE, state |-> Undefined, code |-> Undefined]}

(* ------------------------------- state --------------------------------- *)

VARIABLES
  file,         \* contents of .eve_oauth_cache
  now,          \* the clock reading of validateJwt in each call, in half seconds
  pc,           \* where each call of requestByNative stands
  result,       \* how each call ended: the value returned or the error thrown
  loaded,       \* the cache file as each call read it
  unhandled,    \* the promise of validateJwt was rejected with nobody awaiting it
  code_verifier,\* the PKCE verifier of each call
  state,        \* the state parameter of each call
  browser,      \* the authorization URL each call opened in the browser
  listening,    \* the server of the call holds port 3001
  conns,        \* a keep-alive connection to the server of the call is open
  errPending,   \* an 'error' event of the server of the call is due
  codePromise,  \* the codePromise of each call
  lastRsp,      \* how the server of the call ended its last response
  bound,        \* listen(3001) of the call got the port
  tokenReq,     \* the request each call has sent to the token endpoint
  tokenRsp,     \* what the token endpoint answered each call
  net,          \* what each call did to the outside, in order
  HTTP_PROXY,   \* process.env.HTTP_PROXY is set
  esi           \* the call of ESIClient.request

vars == <<file, now, pc, result, loaded, unhandled, code_verifier, state, browser,
          listening, conns, errPending, codePromise, lastRsp, bound, tokenReq,
          tokenRsp, net, HTTP_PROXY, esi>>

\* How a call ended: kind "value" with the JSON value it returned, or kind
\* "error" with the message of what it threw.
NoResult == [kind |-> "none", json |-> Null, message |-> ""]

Returned(json) == [kind |-> "value", json |-> json, message |-> ""]

Thrown(message) == [kind |-> "error", json |-> Null, message |-> message]

NoUrl == [opened |-> FALSE, code_challenge |-> "", state |-> ""]

\* A request to the token endpoint; agent is the agent option given to
\* fetch: "none" (no option), "null" or "proxy" (an HttpsProxyAgent).
NoReq ==
  [grant_type |-> "", code |-> "", code_verifier |-> "", refresh_token |-> "",
   agent |-> "none"]

\* Lines 11-14 of oauth.mjs: the agent variable of the module.
agent == IF HTTP_PROXY THEN "proxy" ELSE "null"

NoRsp == [answered |-> FALSE, status |-> 0, statusText |-> ""]

Answer(rsp) == [answered |-> TRUE, status |-> rsp.status, statusText |-> rsp.statusText]

Pending == [st |-> "pending", val |-> ""]

\* The response of the resource API: contentType "" stands for a response
\* without a content-type header.
NoApiRsp == [answered |-> FALSE, status |-> 0, contentType |-> "", body |-> NoText]

\* rspBody of ESIClient.request: the value of rsp.json() or of rsp.text().
NoBody == [as |-> "none", json |-> Null, text |-> NoText]

JsonBody(json) == [as |-> "json", json |-> json, text |-> NoText]

TextBody(text) == [as |-> "text", json |-> Null, text |-> text]

\* The message of the error ESIClient.request throws: a string s, or the
\* text of the response body.
NoMessage == [of |-> "none", s |-> "", text |-> NoText]

\* ESIClient.request before it is called.
NoCall ==
  [pc |-> "idle", authorization |-> Undefined, agent |-> "none", fetches |-> 0,
   rsp |-> NoApiRsp, kind |-> "none", rspBody |-> NoBody, message |-> NoMessage]

Init ==
  /\ file \in InitFiles
  /\ now = [p \in Procs |-> 0]
  /\ pc = [p \in Procs |-> "start"]
  /\ result = [p \in Procs |-> NoResult]
  /\ loaded = [p \in Procs |-> NoFile]
  /\ unhandled = [p \in Procs |-> FALSE]
  /\ code_verifier = [p \in Procs |-> ""]
  /\ state = [p \in Procs |-> ""]
  /\ browser = [p \in Procs |-> NoUrl]
  /\ listening = [p \in Procs |-> FALSE]
  /\ conns = [p \in Procs |-> FALSE]
  /\ errPending = [p \in Procs |-> FALSE]
  /\ codePromise = [p \in Procs |-> Pending]
  /\ lastRsp = [p \in Procs |-> "none"]
  /\ bound = [p \in Procs |-> FALSE]
  /\ tokenReq = [p \in Procs |-> NoReq]
  /\ tokenRsp = [p \in Procs |-> NoRsp]
  /\ net = [p \in Procs |-> <<>>]
  /\ HTTP_PROXY \in BOOLEAN
  /\ esi = NoCall

(* --------------------------- requestByNative --------------------------- *)

\* Lines 117-119: the cached record is returned.
ReturnCached(p, r) ==
  /\ pc' = [pc EXCEPT ![p] = "done"]
  /\ result' = [result EXCEPT ![p] = Returned(Obj(r.obj))]
  /\ UNCHANGED <<code_verifier, state, browser, listening, errPending, bound, tokenReq, net>>

\* Line 78: JSON.parse throws and nothing catches it.
ThrowFromCache(p) ==
  /\ pc' = [pc EXCEPT ![p] = "failed"]
  /\ result' = [result EXCEPT ![p] = Thrown("SyntaxError")]
  /\ UNCHANGED <<code_verifier, state, browser, listening, errPending, bound, tokenReq, net>>

\* Lines 84, 54-62: getTokenFromCache returns the promise of
\* refreshAccessToken, whose fetch is on its way; requestByNative returns it.
CallRefresh(p, r) ==
  /\ pc' = [pc EXCEPT ![p] = "refreshing"]
  /\ tokenReq' = [tokenReq EXCEPT ![p] =
                    [NoReq EXCEPT !.grant_type = "refresh_token",
                                  !.refresh_token = r.obj["refresh_token"].s]]
  /\ net' = [net EXCEPT ![p] = Append(@, "refresh")]
  /\ UNCHANGED <<result, code_verifier, state, browser, listening, errPending, bound>>

\* Authorize as it would be with lines 161 and 162 in the other order: the
\* browser is opened, then listen(3001) is called.
AuthorizeBrowserFirst(p) ==
  \E rnd \in AttemptRandoms :
    /\ code_verifier' = [code_verifier EXCEPT ![p] = rnd.code_verifier]
    /\ state' = [state EXCEPT ![p] = rnd.state]
    /\ IF \E q \in Procs : listening[q]
         THEN /\ errPending' = [errPending EXCEPT ![p] = TRUE]
              /\ UNCHANGED <<listening, bound>>
         ELSE /\ listening' = [listening EXCEPT ![p] = TRUE]
              /\ bound' = [bound EXCEPT ![p] = TRUE]
              /\ UNCHANGED errPending
    /\ browser' = [browser EXCEPT ![p] =
                     [opened |-> TRUE,
                      code_challenge |-> generateCodeChallenge(rnd.code_verifier),
                      state |-> rnd.state]]
    /\ net' = [net EXCEPT ![p] = @ \o <<"openUrl", "listen">>]
    /\ pc' = [pc EXCEPT ![p] = "awaitCode"]
    /\ UNCHANGED <<result, tokenReq>>

\* Lines 122-163: the authorization URL is built, the server created with
\* its handlers, listen(3001) called, the browser opened, and the call waits
\* on codePromise.  listen binds at once when the port is free; otherwise the
\* 'error' event of the server is due.
Authorize(p) ==
  \E rnd \in AttemptRandoms :
    /\ code_verifier' = [code_verifier EXCEPT ![p] = rnd.code_verifier]
    /\ state' = [state EXCEPT ![p] = rnd.state]
    /\ IF \E q \in Procs : listening[q]
         THEN /\ errPending' = [errPending EXCEPT ![p] = TRUE]
              /\ UNCHANGED <<listening, bound>>
         ELSE /\ listening' = [listening EXCEPT ![p] = TRUE]
              /\ bound' = [bound EXCEPT ![p] = TRUE]
              /\ UNCHANGED errPending
    /\ browser' = [browser EXCEPT ![p] =
                     [opened |-> TRUE,
                      code_challenge |-> generateCodeChallenge(rnd.code_verifier),
                      state |-> rnd.state]]
    /\ net' = [net EXCEPT ![p] = @ \o <<"listen", "openUrl">>]
    /\ pc' = [pc EXCEPT ![p] = "awaitCode"]
    /\ UNCHANGED <<result, tokenReq>>

\* Lines 114-163, up to the first await.  clk is what the clock shows; it
\* is read when getTokenFromCache calls validateJwt, and now[p] keeps the
\* reading (0 when validateJwt is not called).
Start(p, clk) ==
  /\ pc[p] = "start"
  /\ LET r == getTokenFromCache(file, clk) IN
       /\ r.check.t # "promise" => clk = 0
       /\ now' = [now EXCEPT ![p] = clk]
       /\ loaded' = [loaded EXCEPT ![p] = file]
       /\ unhandled' = [unhandled EXCEPT ![p] = r.check.t = "promise" /\ r.check.s = "rejected"]
       /\ CASE r.kind = "json" -> ReturnCached(p, r)
            [] r.kind = "throw" -> ThrowFromCache(p)
            [] r.kind = "refresh" -> CallRefresh(p, r)
            [] OTHER -> Authorize(p)
  /\ UNCHANGED <<file, conns, codePromise, lastRsp, tokenRsp, HTTP_PROXY, esi>>

(* ----------------------------- the listener ---------------------------- *)

\* resolve as it would be if the code were kept in a plain variable that
\* every qualifying request assigns.
resolveOverwrite(promise, val) == [st |-> "fulfilled", val |-> val]

\* resolve and reject of a promise: only a pending promise settles.
resolve(promise, val) ==
  IF promise.st = "pending" THEN [st |-> "fulfilled", val |-> val] ELSE promise

reject(promise, err) ==
  IF promise.st = "pending" THEN [st |-> "rejected", val |-> err] ELSE promise

\* The handler's test as it would be without the comparison of line 146.
DismissesWithoutState(p, req) ==
  \/ ~req.url
  \/ ~ToBoolean(req.code)

\* Lines 140-153: the handler ends the response with no body and returns.
Dismisses(p, req) ==
  \/ ~req.url
  \/ req.state # Str(state[p])
  \/ ~ToBoolean(req.code)

\* Lines 139-156: the 'request' handler of the server of call p.  The
\* request comes over a new connection, which takes the listening socket, or
\* over a connection that was kept alive; keep says whether the client keeps
\* the connection open afterwards.  The model follows the server until the
\* call has ended.
OnRequest(p, req, keep) ==
  /\ pc[p] \in {"awaitCode", "exchanging"}
  /\ listening[p] \/ conns[p]
  /\ conns' = [conns EXCEPT ![p] = keep]
  /\ IF Dismisses(p, req)
       THEN /\ lastRsp' = [lastRsp EXCEPT ![p] = ""]
            /\ UNCHANGED codePromise
       ELSE /\ lastRsp' = [lastRsp EXCEPT ![p] = "oauth success!"]
            /\ codePromise' = [codePromise EXCEPT ![p] = resolve(@, req.code.s)]
  /\ UNCHANGED <<file, now, pc, result, loaded, unhandled, code_verifier, state,
                 browser, listening, errPending, bound, tokenReq, tokenRsp, net,
                 HTTP_PROXY, esi>>

\* The 'error' handler as it would be if it only logged the error.
OnErrorLogged(p) ==
  /\ errPending[p]
  /\ errPending' = [errPending EXCEPT ![p] = FALSE]
  /\ UNCHANGED <<file, now, pc, result, loaded, unhandled, code_verifier, state,
                 browser, listening, conns, codePromise, lastRsp, bound, tokenReq,
                 tokenRsp, net, HTTP_PROXY, esi>>

\* Lines 157-159: the 'error' handler; listen(3001) found the port taken.
OnError(p) ==
  /\ errPending[p]
  /\ errPending' = [errPending EXCEPT ![p] = FALSE]
  /\ codePromise' = [codePromise EXCEPT ![p] = reject(@, "EADDRINUSE")]
  /\ UNCHANGED <<file, now, pc, result, loaded, unhandled, code_verifier, state,
                 browser, listening, conns, lastRsp, bound, tokenReq, tokenRsp, net,
                 HTTP_PROXY, esi>>

\* The await of line 163 as it would be with a timeout: a call whose
\* codePromise is still pending gives up, closes the server and fails.
AwaitCodeWithTimeout(p) ==
  /\ pc[p] = "awaitCode"
  /\ IF codePromise[p].st # "fulfilled"
       THEN /\ pc' = [pc EXCEPT ![p] = "failed"]
            /\ result' = [result EXCEPT ![p] =
                            Thrown(IF codePromise[p].st = "pending" THEN "timeout"
                                   ELSE codePromise[p].val)]
            /\ listening' = [listening EXCEPT ![p] = FALSE]
            /\ UNCHANGED <<conns, tokenReq, net>>
       ELSE /\ listening' = [listening EXCEPT ![p] = FALSE]
            /\ conns' \in {conns, [conns EXCEPT ![p] = FALSE]}
            /\ tokenReq' = [tokenReq EXCEPT ![p] =
                              [NoReq EXCEPT !.grant_type = "authorization_code",
                                            !.code = codePromise[p].val,
                                            !.code_verifier = code_verifier[p],
                                            !.agent = agent]]
            /\ net' = [net EXCEPT ![p] = @ \o <<"close", "exchange">>]
            /\ pc' = [pc EXCEPT ![p] = "exchanging"]
            /\ UNCHANGED result
  /\ UNCHANGED <<file, now, loaded, unhandled, code_verifier, state, browser,
                 errPending, codePromise, lastRsp, bound, tokenRsp, HTTP_PROXY, esi>>

\* Lines 163-178: codePromise has settled.  Rejected, the await throws.
\* Fulfilled, the server is closed (it stops listening; connections that are
\* not idle stay, idle ones stay or go with the version of Node) and the
\* authorization_code grant is sent.
AwaitCode(p) ==
  /\ pc[p] = "awaitCode"
  /\ codePromise[p].st # "pending"
  /\ IF codePromise[p].st = "rejected"
       THEN /\ pc' = [pc EXCEPT ![p] = "failed"]
            /\ result' = [result EXCEPT ![p] = Thrown(codePromise[p].val)]
            /\ UNCHANGED <<listening, conns, tokenReq, net>>
       ELSE /\ listening' = [listening EXCEPT ![p] = FALSE]
            /\ conns' \in {conns, [conns EXCEPT ![p] = FALSE]}
            /\ tokenReq' = [tokenReq EXCEPT ![p] =
                              [NoReq EXCEPT !.grant_type = "authorization_code",
                                            !.code = codePromise[p].val,
                                            !.code_verifier = code_verifier[p],
                                            !.agent = agent]]
            /\ net' = [net EXCEPT ![p] = @ \o <<"close", "exchange">>]
            /\ pc' = [pc EXCEPT ![p] = "exchanging"]
            /\ UNCHANGED result
  /\ UNCHANGED <<file, now, loaded, unhandled, code_verifier, state, browser,
                 errPending, codePromise, lastRsp, bound, tokenRsp, HTTP_PROXY, esi>>

(* --------------------------- the token endpoint ------------------------ *)

\* A call ends with the JSON value it saved to the cache and returns.
SaveAndReturn(p, json) ==
  /\ file' = saveTokenToCache(json)
  /\ net' = [net EXCEPT ![p] = Append(@, "save")]
  /\ pc' = [pc EXCEPT ![p] = "done"]
  /\ result' = [result EXCEPT ![p] = Returned(json)]

\* A call ends with an error.
Fail(p, message) ==
  /\ pc' = [pc EXCEPT ![p] = "failed"]
  /\ result' = [result EXCEPT ![p] = Thrown(message)]
  /\ UNCHANGED <<file, net>>

\* The test of line 179 as it would be if only server errors were refused.
ExchangeRefusedOn5xx(rsp) == rsp.status >= 500

\* Line 179: the exchange is refused unless the status is 200.
ExchangeRefused(rsp) == rsp.status # StatusOK

\* Lines 179-185: the token endpoint answers the authorization_code grant.
ExchangeResponse(p, rsp) ==
  /\ pc[p] = "exchanging"
  /\ tokenRsp' = [tokenRsp EXCEPT ![p] = Answer(rsp)]
  /\ IF ExchangeRefused(rsp) THEN Fail(p, rsp.statusText)
     ELSE LET rspJson == JSONparse(rsp.body) IN
       IF rspJson.kind = "throw" THEN Fail(p, "invalid json response body")
       ELSE SaveAndReturn(p, rspJson)
  /\ UNCHANGED <<now, loaded, unhandled, code_verifier, state, browser, listening,
                 conns, errPending, codePromise, lastRsp, bound, tokenReq,
                 HTTP_PROXY, esi>>

\* Line 169: fetch rejects (no connection to the token endpoint).
ExchangeError(p) ==
  /\ pc[p] = "exchanging"
  /\ UNCHANGED tokenRsp
  /\ Fail(p, "request failed")
  /\ UNCHANGED <<now, loaded, unhandled, code_verifier, state, browser, listening,
                 conns, errPending, codePromise, lastRsp, bound, tokenReq,
                 HTTP_PROXY, esi>>

\* Lines 63-65: the token endpoint answers the refresh_token grant.
RefreshResponse(p, rsp) ==
  /\ pc[p] = "refreshing"
  /\ tokenRsp' = [tokenRsp EXCEPT ![p] = Answer(rsp)]
  /\ LET rspJson == JSONparse(rsp.body) IN
       IF rspJson.kind = "throw" THEN Fail(p, "invalid json response body")
       ELSE SaveAndReturn(p, rspJson)
  /\ UNCHANGED <<now, loaded, unhandled, code_verifier, state, browser, listening,
                 conns, errPending, codePromise, lastRsp, bound, tokenReq,
                 HTTP_PROXY, esi>>

\* Line 55: fetch rejects.
RefreshError(p) ==
  /\ pc[p] = "refreshing"
  /\ UNCHANGED tokenRsp
  /\ Fail(p, "request failed")
  /\ UNCHANGED <<now, loaded, unhandled, code_verifier, state, browser, listening,
                 conns, errPending, codePromise, lastRsp, bound, tokenReq,
                 HTTP_PROXY, esi>>

(* -------------------------- ESIClient.request -------------------------- *)

\* options.token of the client: none, empty, or a token.
ApiTokens == {Undefined, Str(""), Jwt(MaxExp)}

\* The content-type the request method compares with.
JsonUtf8 == "application/json; charset=UTF-8"

\* content-type headers of a response; "" is a response without one.
ContentTypes ==
  {JsonUtf8, "application/json; charset=utf-8", "application/json", "text/plain", ""}

\* The error object of the resource API.
ApiError == [EmptyObj EXCEPT !["error"] = Str("Type not found!")]

\* Response bodies: an error object, an object without an error field,
\* null, a text that is not JSON, and nothing.
ApiBodies ==
  {JSONstringify(Obj(ApiError)), JSONstringify(Obj(EmptyObj)), NullText, GarbageText,
   NoText}

\* What the resource API can answer.
ApiResponses ==
  [answered : {TRUE}, status : {StatusOK, 201, 404, 502}, contentType : ContentTypes,
   body : ApiBodies]

\* rsp.ok of fetch.
ok(rsp) == rsp.status \in 200..299

\* The test of lines 283 and 289 as it would be if it took every JSON
\* content-type, whatever its parameters and their case.
IsJsonUtf8AnyCharset(rsp) ==
  rsp.contentType \in {JsonUtf8, "application/json; charset=utf-8", "application/json"}

\* Lines 283 and 289: the content-type is exactly the JSON/UTF-8 one.
IsJsonUtf8(rsp) == JsonUtf8 = rsp.contentType

\* Lines 248-280: headers, parameters and agent are set up and fetch is
\* called.  The authorization header is there when options.token is truthy,
\* the agent is an HttpsProxyAgent when HTTP_PROXY is set and null otherwise.
request(token) ==
  /\ esi.pc = "idle"
  /\ esi' = [esi EXCEPT !.pc = "fetching",
                        !.authorization = IF ToBoolean(token) THEN token ELSE Undefined,
                        !.agent = IF HTTP_PROXY THEN "proxy" ELSE "null",
                        !.fetches = @ + 1]
  /\ UNCHANGED <<file, now, pc, result, loaded, unhandled, code_verifier, state,
                 browser, listening, conns, errPending, codePromise, lastRsp, bound,
                 tokenReq, tokenRsp, net, HTTP_PROXY>>

\* Lines 288-296 as they would be if the failure were returned, not thrown.
EndsReturningFailure(rsp, rspBody) ==
  [kind |-> "value", rspBody |-> rspBody, message |-> NoMessage]

\* Lines 288-296: what the request ends with once the body is read.
Ends(rsp, rspBody) ==
  IF ~ok(rsp) THEN
    IF IsJsonUtf8(rsp) THEN
      IF rspBody.json.kind = "null"
        THEN [kind |-> "error", rspBody |-> rspBody,
              message |-> [NoMessage EXCEPT !.of = "TypeError"]]
      ELSE [kind |-> "error", rspBody |-> rspBody,
            message |-> [of |-> "rspBody.error",
                         s |-> rspBody.json.obj["error"].s, text |-> NoText]]
    ELSE [kind |-> "error", rspBody |-> rspBody,
          message |-> [of |-> "rspBody", s |-> "", text |-> rspBody.text]]
  ELSE [kind |-> "value", rspBody |-> rspBody, message |-> NoMessage]

\* Lines 282-296: the response is there.  rsp.json() throws when the body
\* is not JSON; new Error(undefined) has the empty message; reading .error
\* of null throws a TypeError.
requestResponse(rsp) ==
  /\ esi.pc = "fetching"
  /\ LET parsed == JSONparse(rsp.body)
         out == IF IsJsonUtf8(rsp) THEN
                  IF parsed.kind = "throw"
                    THEN [kind |-> "error", rspBody |-> [NoBody EXCEPT !.as = "json"],
                          message |-> [NoMessage EXCEPT !.of = "SyntaxError"]]
                  ELSE Ends(rsp, JsonBody(parsed))
                ELSE Ends(rsp, TextBody(rsp.body))
     IN esi' = [esi EXCEPT !.pc = IF out.kind = "value" THEN "done" ELSE "failed",
                           !.rsp = rsp,
                           !.kind = out.kind,
                           !.rspBody = out.rspBody,
                           !.message = out.message]
  /\ UNCHANGED <<file, now, pc, result, loaded, unhandled, code_verifier, state,
                 browser, listening, conns, errPending, codePromise, lastRsp, bound,
                 tokenReq, tokenRsp, net, HTTP_PROXY>>

\* Line 275: fetch rejects.
requestError ==
  /\ esi.pc = "fetching"
  /\ esi' = [esi EXCEPT !.pc = "failed", !.kind = "error",
                        !.message = [NoMessage EXCEPT !.of = "FetchError"]]
  /\ UNCHANGED <<file, now, pc, result, loaded, unhandled, code_verifier, state,
                 browser, listening, conns, errPending, codePromise, lastRsp, bound,
                 tokenReq, tokenRsp, net, HTTP_PROXY>>

(* --------------------------- specifications ---------------------------- *)

Next ==
  \/ \E p \in Procs, clk \in 0..MaxClock : Start(p, clk)
  \/ \E p \in Procs, req \in CallbackRequests, keep \in BOOLEAN : OnRequest(p, req, keep)
  \/ \E p \in Procs : OnError(p)
  \/ \E p \in Procs : AwaitCode(p)
  \/ \E p \in Procs, rsp \in TokenResponses : ExchangeResponse(p, rsp)
  \/ \E p \in Procs : ExchangeError(p)

Spec == Init /\ [][Next]_vars

\* refreshAccessToken on its own: each call has read a cached record with an
\* access_token and a refresh_token, getTokenFromCache has reached line 84
\* and the refresh_token grant is on its way.
InitRefresh ==
  /\ file \in {f \in InitFiles :
                 /\ f.exists /\ f.text.kind = "object"
                 /\ ToBoolean(JSONparse(f.text).obj["access_token"])
                 /\ ToBoolean(JSONparse(f.text).obj["refresh_token"])}
  /\ now \in [Procs -> 0..MaxClock]
  /\ pc = [p \in Procs |-> "refreshing"]
  /\ result = [p \in Procs |-> NoResult]
  /\ loaded = [p \in Procs |-> file]
  /\ unhandled = [p \in Procs |->
                    validateJwt(JSONparse(file.text).obj["access_token"], now[p]).s = "rejected"]
  /\ code_verifier = [p \in Procs |-> ""]
  /\ state = [p \in Procs |-> ""]
  /\ browser = [p \in Procs |-> NoUrl]
  /\ listening = [p \in Procs |-> FALSE]
  /\ conns = [p \in Procs |-> FALSE]
  /\ errPending = [p \in Procs |-> FALSE]
  /\ codePromise = [p \in Procs |-> Pending]
  /\ lastRsp = [p \in Procs |-> "none"]
  /\ bound = [p \in Procs |-> FALSE]
  /\ tokenReq = [p \in Procs |->
                   [NoReq EXCEPT !.grant_type = "refresh_token",
                                 !.refresh_token = JSONparse(file.text).obj["refresh_token"].s]]
  /\ tokenRsp = [p \in Procs |-> NoRsp]
  /\ net = [p \in Procs |-> <<"refresh">>]
  /\ HTTP_PROXY \in BOOLEAN
  /\ esi = NoCall

NextRefresh ==
  \/ \E p \in Procs, rsp \in TokenResponses : RefreshResponse(p, rsp)
  \/ \E p \in Procs : RefreshError(p)

SpecRefresh == InitRefresh /\ [][NextRefresh]_vars

\* ESIClient.request on its own: one request from its call to its end.
NextRequest ==
  \/ \E token \in ApiTokens : request(token)
  \/ \E rsp \in ApiResponses : requestResponse(rsp)
  \/ requestError

SpecRequest == Init /\ [][NextRequest]_vars

\* The token records of the round trip: the access token is a JWT of any
\* expiry, refresh_token is there or not, expires_in is 0 or more.
RoundTripRecords ==
  {[TokenRecord(a, r) EXCEPT !["expires_in"] = e] :
     a \in {JwtNoExp} \cup {Jwt(x) : x \in {0, 1, MaxExp}},
     r \in CachedRefreshTokens,
     e \in {Num(0), Num(1199)}}

\* Lines 92-94 and 184-185: a call at the end of a token request saves the
\* record it got and returns it.
SaveToken(p, token) ==
  /\ pc[p] = "saving"
  /\ SaveAndReturn(p, Obj(token))
  /\ UNCHANGED <<now, loaded, unhandled, code_verifier, state, browser, listening,
                 conns, errPending, codePromise, lastRsp, bound, tokenReq, tokenRsp,
                 HTTP_PROXY, esi>>

\* saveTokenToCache followed by getTokenFromCache: the first call is about
\* to save a token record, the second has not started yet.
InitRoundTrip ==
  /\ file \in InitFiles
  /\ now = [p \in Procs |-> 0]
  /\ pc = [p \in Procs |-> IF p = 1 THEN "saving" ELSE "start"]
  /\ result = [p \in Procs |-> NoResult]
  /\ loaded = [p \in Procs |-> NoFile]
  /\ unhandled = [p \in Procs |-> FALSE]
  /\ code_verifier = [p \in Procs |-> ""]
  /\ state = [p \in Procs |-> ""]
  /\ browser = [p \in Procs |-> NoUrl]
  /\ listening = [p \in Procs |-> FALSE]
  /\ conns = [p \in Procs |-> FALSE]
  /\ errPending = [p \in Procs |-> FALSE]
  /\ codePromise = [p \in Procs |-> Pending]
  /\ lastRsp = [p \in Procs |-> "none"]
  /\ bound = [p \in Procs |-> FALSE]
  /\ tokenReq = [p \in Procs |-> NoReq]
  /\ tokenRsp = [p \in Procs |-> NoRsp]
  /\ net = [p \in Procs |-> <<>>]
  /\ HTTP_PROXY \in BOOLEAN
  /\ esi = NoCall

NextRoundTrip ==
  \/ \E p \in Procs, token \in RoundTripRecords : SaveToken(p, token)
  \/ \E p \in Procs, clk \in 0..MaxClock : Start(p, clk)

SpecRoundTrip == InitRoundTrip /\ [][NextRoundTrip]_vars

(* ------------------------------- claims -------------------------------- *)

\* The call did e to the outside.
Did(p, e) == \E i \in DOMAIN net[p] : net[p][i] = e

\* How often the call did e.
Times(p, e) == Cardinality({i \in DOMAIN net[p] : net[p][i] = e})

\* The call has read a cache file that holds an object.
ReadObject(p) == pc[p] # "start" /\ loaded[p].exists /\ loaded[p].text.kind = "object"

\* The object the call read from the cache file.
Cached(p) == JSONparse(loaded[p].text).obj

\* The call has read a cached record whose access token is a JWT.
ReadJwt(p) == ReadObject(p) /\ JwtDecodes(Cached(p)["access_token"])

\* The exp claim of the access token the call read is later than the time
\* of the call (exp counts seconds, now half seconds).
ExpInFuture(p) ==
  /\ ReadJwt(p)
  /\ Cached(p)["access_token"].hasExp
  /\ 2 * Cached(p)["access_token"].n > now[p]

\* The access token the call read has an exp claim at or before the time of
\* the call.
Expired(p) ==
  /\ ReadJwt(p)
  /\ Cached(p)["access_token"].hasExp
  /\ 2 * Cached(p)["access_token"].n <= now[p]

\* The access token the call read carries no exp claim.
WithoutExp(p) == ReadJwt(p) /\ ~Cached(p)["access_token"].hasExp

\* The call made no network call and started nothing.
Quiet(p) ==
  /\ net[p] = <<>>
  /\ tokenReq[p] = NoReq
  /\ ~browser[p].opened
  /\ ~listening[p] /\ ~bound[p] /\ ~errPending[p]

\* C1: a call that reads a cached record whose access token has its exp in
\* the future returns exactly that record and makes no network call: no
\* refresh, no listener, no browser, no code exchange.
C1_ValidCachedReturned ==
  \A p \in Procs :
    ExpInFuture(p) =>
      /\ pc[p] = "done"
      /\ result[p] = Returned(Obj(Cached(p)))
      /\ Quiet(p)

C1_Witness ==
  \E p \in Procs :
    /\ ExpInFuture(p)
    /\ ToBoolean(Cached(p)["refresh_token"])
    /\ pc[p] = "done"

\* C2: a call that reads a cached record whose access token is expired and
\* which has a refresh_token sends the refresh_token grant, never returns
\* the stale record and never starts interactive authorization.
C2_ExpiredIsRefreshed ==
  \A p \in Procs :
    (Expired(p) /\ ToBoolean(Cached(p)["refresh_token"])) =>
      /\ tokenReq[p].grant_type = "refresh_token"
      /\ result[p] # Returned(Obj(Cached(p)))
      /\ ~browser[p].opened /\ ~Did(p, "listen")

\* C3: a cached record whose access token is not valid (no exp, or exp not
\* in the future) is never returned as it is, and without a refresh_token
\* the call goes through interactive authorization.
C3_InvalidNeverReturned ==
  \A p \in Procs :
    (Expired(p) \/ WithoutExp(p)) =>
      /\ result[p] # Returned(Obj(Cached(p)))
      /\ ~ToBoolean(Cached(p)["refresh_token"]) =>
           (Did(p, "listen") /\ browser[p].opened)

\* The cache file the call read is absent, empty, or an object without an
\* access_token field.
NoCachedToken(p) ==
  /\ pc[p] # "start"
  /\ \/ ~loaded[p].exists
     \/ loaded[p].text.kind = "empty"
     \/ loaded[p].text.kind = "object" /\ Cached(p)["access_token"].t = "undefined"

\* C4: with the cache file absent, empty or without an access_token field,
\* the call starts the listener and opens the browser first, and sends no
\* refresh request.
C4_NoCacheGoesInteractive ==
  \A p \in Procs :
    NoCachedToken(p) =>
      /\ Len(net[p]) >= 2 /\ net[p][1] = "listen" /\ net[p][2] = "openUrl"
      /\ browser[p].opened
      /\ ~Did(p, "refresh")
      /\ tokenReq[p].grant_type # "refresh_token"

C4_Witness ==
  \E p \in Procs :
    /\ NoCachedToken(p)
    /\ loaded[p].exists /\ loaded[p].text.kind = "object"
    /\ ToBoolean(Cached(p)["refresh_token"])
    /\ listening[p] /\ browser[p].opened

\* C5: with a cache file that is not empty and not JSON, the cache load
\* does not raise: the call goes on to interactive authorization.
C5_MalformedCacheDegrades ==
  \A p \in Procs :
    (pc[p] # "start" /\ loaded[p].exists /\ loaded[p].text.kind = "garbage") =>
      /\ Did(p, "listen") /\ browser[p].opened
      /\ result[p] # Thrown("SyntaxError")

\* The request is one the claim C6 speaks of: its state differs from the
\* state of the attempt, or it carries no code.
NotQualifying(p, req) == req.state # Str(state[p]) \/ req.code.t = "undefined"

\* The step leaves every pending authorization, every listener and every
\* call as they are, and the server of call p has ended a response with no
\* body.
KeepsWaiting(p) ==
  /\ codePromise' = codePromise
  /\ lastRsp'[p] = ""
  /\ listening' = listening
  /\ pc' = pc /\ result' = result

\* C6: a callback request with another state (with or without a code), or
\* with the state of the attempt and no code, neither resolves nor rejects
\* the pending authorization: the response ends with no body, the listener
\* stays open and the call keeps waiting.  (By contraposition: a step that
\* does otherwise is not the handling of such a request; the connection
\* the handler leaves is conns'[p].)
C6_RejectedCallbackKeepsWaiting ==
  [][\A p \in Procs, req \in CallbackRequests :
       ~KeepsWaiting(p) =>
         ~(NotQualifying(p, req) /\ OnRequest(p, req, conns'[p]))]_vars

C6_Witness ==
  \E p \in Procs :
    /\ pc[p] = "awaitCode" /\ codePromise[p].st = "pending"
    /\ lastRsp[p] = ""
    /\ listening[p]

\* C7: the pending authorization is settled at most once, by the first
\* request with the state of the attempt and a code; it is resolved with the
\* code of that request, and the code of the authorization_code grant is
\* that code whatever requests come later.
C7_ResolvedOnceWithCode ==
  [][\A p \in Procs :
       /\ codePromise[p].st # "pending" => codePromise'[p] = codePromise[p]
       /\ \A req \in CallbackRequests :
            (/\ codePromise[p].st = "pending"
             /\ req.state = Str(state[p]) /\ ToBoolean(req.code)
             /\ OnRequest(p, req, conns'[p])) =>
              codePromise'[p] = [st |-> "fulfilled", val |-> req.code.s]
       /\ tokenReq'[p].grant_type = "authorization_code" =>
            /\ codePromise'[p].st = "fulfilled"
            /\ tokenReq'[p].code = codePromise'[p].val]_vars

C7_Witness ==
  \E p \in Procs :
    /\ pc[p] = "exchanging"
    /\ tokenReq[p].code = "c1"
    /\ lastRsp[p] = ""

\* The token endpoint answered the call with a status outside 200..299.
AnsweredNon2xx(p) ==
  tokenRsp[p].answered /\ ~(tokenRsp[p].status \in 200..299)

\* C8: when the token endpoint answers the authorization_code grant with a
\* non-2xx status, the call fails with the status text as message; the
\* exchange was sent once, nothing is returned and the call does not write
\* the cache file.
C8_ExchangeNon2xxFails ==
  \A p \in Procs :
    (tokenReq[p].grant_type = "authorization_code" /\ AnsweredNon2xx(p)) =>
      /\ pc[p] = "failed"
      /\ result[p] = Thrown(tokenRsp[p].statusText)
      /\ Times(p, "exchange") = 1
      /\ ~Did(p, "save")

C8_Witness ==
  \E p \in Procs :
    /\ tokenReq[p].grant_type = "authorization_code"
    /\ tokenRsp[p].answered /\ tokenRsp[p].status = 400
    /\ pc[p] = "failed"

BindFailed(p) == Did(p, "listen") /\ ~bound[p]

\* C10: a call whose listen(3001) finds the port taken fails with the
\* listener error: it handles no callback, sends no token request and does
\* not write the cache; while it waits, the error is due or has rejected its
\* pending authorization.  The error leaves the listener of the other call
\* and its pending authorization as they are.
C10_SecondListenerFailsFast ==
  /\ [](\A p \in Procs :
          BindFailed(p) =>
            /\ pc[p] \in {"awaitCode", "failed"}
            /\ pc[p] = "awaitCode" =>
                 (errPending[p] \/ codePromise[p] = [st |-> "rejected", val |-> "EADDRINUSE"])
            /\ pc[p] = "failed" => result[p] = Thrown("EADDRINUSE")
            /\ ~listening[p] /\ lastRsp[p] = "none"
            /\ tokenReq[p] = NoReq /\ ~Did(p, "save"))
  /\ [][\A p \in Procs :
          (errPending[p] /\ ~errPending'[p]) =>
            /\ listening' = listening
            /\ \A q \in Procs \ {p} : codePromise'[q] = codePromise[q] /\ pc'[q] = pc[q]]_vars

C10_Witness ==
  \E p, q \in Procs :
    /\ pc[p] = "failed" /\ result[p] = Thrown("EADDRINUSE")
    /\ listening[q] /\ pc[q] = "awaitCode" /\ lastRsp[q] = "oauth success!"

\* The cache file holds a record that is valid (a JWT access token whose exp
\* is later than the clock reading of some call) or refreshable (it has a
\* refresh_token).
HoldsUsableRecord(f) ==
  /\ f.exists /\ f.text.kind = "object"
  /\ LET json == JSONparse(f.text).obj IN
       \/ ToBoolean(json["refresh_token"])
       \/ /\ JwtDecodes(json["access_token"]) /\ json["access_token"].hasExp
          /\ \E p \in Procs : 2 * json["access_token"].n > now[p]

Answered2xx(p) == tokenRsp[p].answered /\ tokenRsp[p].status \in 200..299

Precedes(p, e1, e2) ==
  \A j \in DOMAIN net[p] :
    net[p][j] = e2 => \E i \in DOMAIN net[p] : i < j /\ net[p][i] = e1

C17_NoCallbackAfterClose ==
  /\ [](\A p \in Procs :
          Did(p, "exchange") =>
            /\ Precedes(p, "close", "exchange")
            /\ ~listening[p])
  /\ [][\A p \in Procs :
          Did(p, "close") =>
            ~\E req \in CallbackRequests, keep \in BOOLEAN : OnRequest(p, req, keep)]_vars

\* C18: the code_verifier of the authorization_code grant is the verifier
\* generated for the attempt, the code_challenge of the authorization URL is
\* its challenge, the URL does not carry the verifier, and the grant does
\* not carry the challenge as its verifier.
C18_VerifierOnlyInExchange ==
  \A p \in Procs :
    /\ browser[p].opened =>
         /\ browser[p].code_challenge = generateCodeChallenge(code_verifier[p])
         /\ code_verifier[p] \notin {browser[p].code_challenge, browser[p].state}
    /\ tokenReq[p].grant_type = "authorization_code" =>
         /\ tokenReq[p].code_verifier = code_verifier[p]
         /\ tokenReq[p].code_verifier # browser[p].code_challenge
         /\ tokenReq[p].code # code_verifier[p]

C18_Witness ==
  \E p \in Procs :
    /\ tokenReq[p].grant_type = "authorization_code"
    /\ tokenReq[p].code_verifier = "v2"
    /\ browser[p].code_challenge = "h2"

\* C19: a call that waits with its authorization pending stays waiting, and
\* its listener stays as it is, in every step; the authorization is settled
\* only by the 'error' event of the listener or by a request with the state
\* of the attempt and a code.  A call whose exchange was answered has ended.
C19_SuspendedUntilCallbackOrError ==
  /\ [][\A p \in Procs :
          (pc[p] = "awaitCode" /\ codePromise[p].st = "pending") =>
            /\ pc'[p] = "awaitCode"
            /\ listening'[p] = listening[p] /\ bound'[p] = bound[p]
            /\ codePromise'[p].st # "pending" =>
                 \/ errPending[p] /\ ~errPending'[p]
                 \/ \E req \in CallbackRequests, keep \in BOOLEAN :
                      OnRequest(p, req, keep) /\ ~NotQualifying(p, req)]_vars
  /\ [](\A p \in Procs :
          (tokenReq[p].grant_type = "authorization_code" /\ tokenRsp[p].answered) =>
            pc[p] \in {"done", "failed"})

C19_Witness ==
  \E p, q \in Procs :
    /\ pc[p] = "done" /\ Did(p, "exchange") /\ tokenRsp[p].answered
    /\ pc[q] = "awaitCode" /\ listening[q] /\ codePromise[q].st = "pending"
    /\ lastRsp[q] = ""

\* Call p read the cache file as the save of call q wrote it.
LoadedWhatWasSaved(p, q) ==
  /\ p # q
  /\ Did(q, "save") /\ result[q].kind = "value"
  /\ pc[p] # "start"
  /\ loaded[p] = saveTokenToCache(result[q].json)

\* C12: a call that loads the cache file as saveTokenToCache wrote it for a
\* token record gets a record equal to the saved one in every field, and
\* makes no network call.
C12_SaveLoadRoundTrip ==
  \A p, q \in Procs :
    LoadedWhatWasSaved(p, q) =>
      /\ pc[p] = "done"
      /\ result[p] = Returned(result[q].json)
      /\ \A k \in {"access_token", "token_type", "expires_in", "refresh_token"} :
           result[p].json.obj[k] = result[q].json.obj[k]
      /\ Quiet(p)

C12_Witness ==
  \E p, q \in Procs :
    /\ LoadedWhatWasSaved(p, q)
    /\ result[q].json.obj["expires_in"] = Num(0)
    /\ result[q].json.obj["access_token"] = Jwt(1)
    /\ result[q].json.obj["refresh_token"] = Undefined
    /\ pc[p] = "done"

\* C13: the body of a response is read with rsp.json() exactly when the
\* content-type is 'application/json; charset=UTF-8' and with rsp.text()
\* for every other content-type, whatever the status: read as text, the
\* body is the raw text, read as JSON, it is the value the text parses to.
C13_JsonOnlyForExactContentType ==
  esi.rsp.answered =>
    /\ esi.rspBody.as = (IF esi.rsp.contentType = JsonUtf8 THEN "json" ELSE "text")
    /\ esi.rspBody.as = "text" => esi.rspBody = TextBody(esi.rsp.body)
    /\ (esi.rspBody.as = "json" /\ JSONparse(esi.rsp.body).kind # "throw") =>
         esi.rspBody = JsonBody(JSONparse(esi.rsp.body))

C13_Witness ==
  /\ esi.rsp.answered /\ esi.rsp.status = 404
  /\ esi.rsp.contentType = "application/json; charset=utf-8"
  /\ esi.rsp.body = JSONstringify(Obj(ApiError))
  /\ esi.rspBody.as = "text"

\* The request failed with m as the message of its error.
Raised(m) == esi.pc = "failed" /\ esi.kind = "error" /\ esi.message = m

\* The message new Error(rspBody.error) and new Error(rspBody) carry.
ErrorField(json) == [of |-> "rspBody.error", s |-> json.obj["error"].s, text |-> NoText]

RawText(text) == [of |-> "rspBody", s |-> "", text |-> text]

\* C14 as stated: a request answered with a non-2xx status raises, with the
\* error field of the parsed body as message when the body was parsed as
\* JSON and with the raw text otherwise; a request answered with a 2xx
\* status returns the parsed body; one HTTP request is made.
C14_Non2xxRaises2xxReturns ==
  esi.rsp.answered =>
    LET rsp == esi.rsp
        parsed == JSONparse(rsp.body)
    IN /\ esi.fetches = 1
       /\ ~ok(rsp) =>
            /\ esi.kind = "error"
            /\ (rsp.contentType = JsonUtf8 /\ parsed.kind # "throw") =>
                 Raised(ErrorField(parsed))
            /\ rsp.contentType # JsonUtf8 => Raised(RawText(rsp.body))
       /\ ok(rsp) =>
            /\ esi.pc = "done" /\ esi.kind = "value"
            /\ esi.rspBody.as # "none"

\* C14 amended: a body declared as JSON that does not parse makes the
\* request raise the parse failure whatever the status.  Otherwise a
\* non-2xx status raises, with the error field of the parsed object as
\* message (the empty message without such a field, a TypeError when the
\* body is null) or with the raw text, and a 2xx status returns the body.
C14_RaisesOrReturnsParsedBody ==
  esi.rsp.answered =>
    LET rsp == esi.rsp
        parsed == JSONparse(rsp.body)
        isJson == rsp.contentType = JsonUtf8
    IN /\ esi.fetches = 1
       /\ (isJson /\ parsed.kind = "throw") =>
            Raised([NoMessage EXCEPT !.of = "SyntaxError"])
       /\ (isJson /\ parsed.kind = "null" /\ ~ok(rsp)) =>
            Raised([NoMessage EXCEPT !.of = "TypeError"])
       /\ (isJson /\ parsed.kind = "object" /\ ~ok(rsp)) =>
            Raised(ErrorField(parsed))
       /\ (~isJson /\ ~ok(rsp)) => Raised(RawText(rsp.body))
       /\ (~(isJson /\ parsed.kind = "throw") /\ ok(rsp)) =>
            /\ esi.pc = "done" /\ esi.kind = "value" /\ esi.message = NoMessage
            /\ esi.rspBody = (IF isJson THEN JsonBody(parsed) ELSE TextBody(rsp.body))

C14_Witness ==
  /\ esi.rsp.answered /\ esi.rsp.status = 404 /\ esi.rsp.contentType = JsonUtf8
  /\ Raised(ErrorField(Obj(ApiError)))
  /\ esi.message.s = "Type not found!"

====
